---- MODULE Spec2Model ----
(***************************************************************************)
(* A model of the graph engine of src/src/algorithms/graph.rs: the node    *)
(* and edge registry (Grf::add_nd, Grf::add_ed), Prim's minimum spanning   *)
(* tree (Grf::mst) and the forward-only augmenting-path maximum flow       *)
(* (Grf::max_flow, Grf::find_path).                                        *)
(*                                                                         *)
(* Node handles are 1..Len(nodes) (petgraph's NodeIndex, shifted by one),  *)
(* edge handles are 1..Len(edges) in insertion order.  Only Nd.id is kept  *)
(* of a node: val and pos are never read by the algorithms.  Capacities,   *)
(* weights and flows are integers (the f64 values of the code restricted   *)
(* to exactly representable whole numbers).                                *)
(***************************************************************************)
EXTENDS Integers, Sequences, FiniteSets, Bags, TLC

\* ------------------------------------------------------------- bounds
MaxNodes == 3
MaxEdges == 3
MaxId == 3
MaxCap == 2
MaxSymEdges == 3

Ids == 1..MaxId
Caps == 0..MaxCap
\* The weights of the undirected graphs the spanning tree is checked on.
Weights == {1, 2, 5}

\* f64::INFINITY, the value min_cap starts every loop iteration with.
INFINITY == 1000000

VARIABLES
    nodes,      \* Grf.g's node weights in handle order: Seq of Nd.id
    edges,      \* Grf.g's edges in insertion order: [u, v, wt, flow]
    idx_map,    \* Grf.idx_map: external id -> node handle
    pc,         \* "idle", "max_flow", "mst", or "panic" (the call panicked:
                \* no call follows)
    source,     \* max_flow's locals
    sink,
    flow,
    min_cap,
    path,
    res,        \* mst's locals
    seen,
    heap,
    ret,        \* the last completed call: [op, args, val]; args are kept
                \* for max_flow (the handles of s and t)
    pre,        \* history: the graph at the entry of the current or last call
    repeat,     \* history, kept where it starts as "no" and not where it
                \* starts as "off": "yes" when the current or last call is
                \* a max_flow call with the arguments of the max_flow call
                \* that returned just before it
    running,    \* Core.state.running
    writer,     \* the thread that holds Core.state's write lock, or 0
    queue,      \* the events sent on Core.tx and not received
    tpc,        \* for every thread, where it is in its call on the Core
    lastOp,     \* history: the call that took the write lock last
    observed,   \* <<b>> when the last is_running call returned b, <<>> before
                \* the first
    input,      \* the string that Prs::new was given, as a sequence of
                \* characters
    toks,       \* Prs.toks
    idx,        \* Prs.idx
    out,        \* what the last parse call returned
    parses      \* the number of parse calls made

graphVars == <<nodes, edges, idx_map, pc, source, sink, flow, min_cap, path,
               res, seen, heap, ret, pre, repeat>>
coreVars == <<running, writer, queue, tpc, lastOp, observed>>
prsVars == <<input, toks, idx, out, parses>>

vars == <<graphVars, coreVars, prsVars>>

\* ------------------------------------------------------------- registry

\* Grf::new
NewGraph == [nodes |-> <<>>, edges |-> <<>>, idx_map |-> <<>>]

Graph == [nodes |-> nodes, edges |-> edges, idx_map |-> idx_map]

\* Mutant of MapInsert: an entry that exists is kept.
MapInsertKeep(m, k, x) ==
    IF k \in DOMAIN m THEN m
    ELSE [i \in (DOMAIN m) \cup {k} |-> IF i = k THEN x ELSE m[i]]

\* HashMap::insert: a new key is added, an existing key is overwritten.
MapInsert(m, k, x) == [i \in (DOMAIN m) \cup {k} |-> IF i = k THEN x ELSE m[i]]

\* Grf::add_nd: a new node at the next handle, and the index entry for id.
add_nd(G, id) ==
    [nodes   |-> Append(G.nodes, id),
     edges   |-> G.edges,
     idx_map |-> MapInsert(G.idx_map, id, Len(G.nodes) + 1)]

\* Grf::add_ed, both ids registered: a new edge with flow 0.
add_ed(G, from, to, wt) ==
    [nodes   |-> G.nodes,
     edges   |-> Append(G.edges, [u |-> G.idx_map[from], v |-> G.idx_map[to],
                                  wt |-> wt, flow |-> 0]),
     idx_map |-> G.idx_map]

\* Graph::edges(u): u's outgoing edges, the most recently added first
\* (petgraph links every new edge at the head of its tail node's list).
RECURSIVE EdgesFrom(_, _, _)
EdgesFrom(E, u, k) ==
    IF k = 0 THEN <<>>
    ELSE IF E[k].u = u THEN <<k>> \o EdgesFrom(E, u, k - 1)
    ELSE EdgesFrom(E, u, k - 1)

OutEdges(E, u) == EdgesFrom(E, u, Len(E))

\* Graph::find_edge(u, v): the first edge of u's list whose target is v,
\* 0 when there is none.
RECURSIVE FirstTo(_, _, _)
FirstTo(E, es, v) ==
    IF es = <<>> THEN 0
    ELSE IF E[Head(es)].v = v THEN Head(es)
    ELSE FirstTo(E, Tail(es), v)

find_edge(E, u, v) == FirstTo(E, OutEdges(E, u), v)

\* ------------------------------------------------------------- max flow

\* Mutant of HasResidual: the flow already on the edge is not looked at.
HasResidualIgnoresFlow(e) == e.wt > 0

\* Mutant of HasResidual: a full edge still counts (>= for >).
HasResidualOrEqual(e) == e.wt >= e.flow

\* The test of find_path's line 125: the edge has capacity left.
HasResidual(e) == e.wt > e.flow

\* Mutant of Scan: the predecessor is recorded for every edge with capacity
\* left, also when the target was reached before (the last finder wins).
RECURSIVE ScanLastWins(_, _, _, _, _, _)
ScanLastWins(E, es, u, sn, pv, q) ==
    IF es = <<>> THEN [seen |-> sn, prev |-> pv, queue |-> q]
    ELSE LET e == E[Head(es)]
         IN  IF HasResidual(e)
             THEN IF e.v \notin sn
                  THEN ScanLastWins(E, Tail(es), u, sn \cup {e.v},
                                    [pv EXCEPT ![e.v] = u], Append(q, e.v))
                  ELSE ScanLastWins(E, Tail(es), u, sn,
                                    [pv EXCEPT ![e.v] = u], q)
             ELSE ScanLastWins(E, Tail(es), u, sn, pv, q)

\* One pass of the for loop of find_path over the edges es of u.
RECURSIVE Scan(_, _, _, _, _, _)
Scan(E, es, u, sn, pv, q) ==
    IF es = <<>> THEN [seen |-> sn, prev |-> pv, queue |-> q]
    ELSE LET e == E[Head(es)]
         IN  IF e.v \notin sn /\ HasResidual(e)
             THEN Scan(E, Tail(es), u, sn \cup {e.v},
                       [pv EXCEPT ![e.v] = u], Append(q, e.v))
             ELSE Scan(E, Tail(es), u, sn, pv, q)

\* The while loop of find_path over the queue; the result is prev, with 0
\* for a node that has no entry.
RECURSIVE Bfs(_, _, _, _)
Bfs(E, q, sn, pv) ==
    IF q = <<>> THEN pv
    ELSE LET r == Scan(E, OutEdges(E, Head(q)), Head(q), sn, pv, Tail(q))
         IN  Bfs(E, r.queue, r.seen, r.prev)

Reverse(s) == [i \in 1..Len(s) |-> s[Len(s) + 1 - i]]

\* The second loop of find_path: from t back along prev until s is met.
RECURSIVE WalkBack(_, _, _, _)
WalkBack(pv, s, curr, acc) ==
    IF pv[curr] = 0 THEN <<>>
    ELSE IF pv[curr] = s THEN Reverse(acc \o <<curr, s>>)
    ELSE WalkBack(pv, s, pv[curr], Append(acc, curr))

\* Grf::find_path on a graph with n nodes.
find_path(E, n, s, t) ==
    WalkBack(Bfs(E, <<s>>, {s}, [x \in 1..n |-> 0]), s, t, <<>>)

\* Mutant of Bottleneck: the least capacity, not the least wt - flow.
RECURSIVE MinWtFrom(_, _, _, _)
MinWtFrom(E, p, i, m) ==
    IF i > Len(p) - 1 THEN m
    ELSE LET e == E[FirstTo(E, EdgesFrom(E, p[i], Len(E)), p[i + 1])]
         IN  MinWtFrom(E, p, i + 1, IF e.wt < m THEN e.wt ELSE m)

BottleneckIgnoresFlow(E, p) == MinWtFrom(E, p, 1, INFINITY)

\* Mutant of Bottleneck: max for min, so that the start value stays.
BottleneckMax(E, p) == INFINITY

\* The first for loop of max_flow: the least wt - flow over the edges that
\* find_edge gives for the consecutive pairs of the path.
RECURSIVE MinCapFrom(_, _, _, _)
MinCapFrom(E, p, i, m) ==
    IF i > Len(p) - 1 THEN m
    ELSE LET e == E[find_edge(E, p[i], p[i + 1])]
             r == e.wt - e.flow
         IN  MinCapFrom(E, p, i + 1, IF r < m THEN r ELSE m)

Bottleneck(E, p) == MinCapFrom(E, p, 1, INFINITY)

\* Mutant of Augment: the last edge of the path is left out (a loop bound
\* one too small).
RECURSIVE AugmentUpTo(_, _, _, _, _)
AugmentUpTo(E, p, i, m, last) ==
    IF i > last THEN E
    ELSE LET k == FirstTo(E, EdgesFrom(E, p[i], Len(E)), p[i + 1])
         IN  AugmentUpTo([E EXCEPT ![k].flow = @ + m], p, i + 1, m, last)

AugmentSkipLast(E, p, m) == AugmentUpTo(E, p, 1, m, Len(p) - 2)

\* Mutant of Augment: the flow is set to m, not raised by m (= for +=).
RECURSIVE AssignUpTo(_, _, _, _)
AssignUpTo(E, p, i, m) ==
    IF i > Len(p) - 1 THEN E
    ELSE LET k == FirstTo(E, EdgesFrom(E, p[i], Len(E)), p[i + 1])
         IN  AssignUpTo([E EXCEPT ![k].flow = m], p, i + 1, m)

AugmentAssign(E, p, m) == AssignUpTo(E, p, 1, m)

\* Mutant of Augment: the amount is taken off the capacity instead of being
\* added to the flow (the edge keeps its residual capacity in wt).
RECURSIVE ResidualUpTo(_, _, _, _)
ResidualUpTo(E, p, i, m) ==
    IF i > Len(p) - 1 THEN E
    ELSE LET k == FirstTo(E, EdgesFrom(E, p[i], Len(E)), p[i + 1])
         IN  ResidualUpTo([E EXCEPT ![k].wt = @ - m], p, i + 1, m)

AugmentResidual(E, p, m) == ResidualUpTo(E, p, 1, m)

\* The second for loop of max_flow: m more flow on each of those edges.
RECURSIVE AugmentFrom(_, _, _, _)
AugmentFrom(E, p, i, m) ==
    IF i > Len(p) - 1 THEN E
    ELSE LET k == find_edge(E, p[i], p[i + 1])
         IN  AugmentFrom([E EXCEPT ![k].flow = @ + m], p, i + 1, m)

Augment(E, p, m) == AugmentFrom(E, p, 1, m)

\* Mutant of MaxFlowResult: the last bottleneck is returned.
MaxFlowResultLast(total, m) == m

\* What max_flow returns: its running total.
MaxFlowResult(total, m) == total

\* ------------------------------------------------------------- spanning tree

\* Edge::new(u, v, wt), as mst pushes it: the weight negated.
HeapEdge(u, v, wt) == [u |-> u, v |-> v, wt |-> 0 - wt]

\* BinaryHeap::push
HeapPush(h, x) == h (+) SetToBag({x})

\* Mutant of HeapTop: the order is taken the wrong way round, so that the
\* heaviest edge comes out first.
HeapTopHeaviest(h) == {x \in BagToSet(h) : \A o \in BagToSet(h) : o.wt >= x.wt}

\* What BinaryHeap::pop may return: an entry that Ord for Edge (the order of
\* wt alone) puts below no other.  Which of several equal entries comes out
\* is not fixed by the code, so each of them may.
HeapTop(h) == {x \in BagToSet(h) : \A o \in BagToSet(h) : o.wt <= x.wt}

\* Mutant of Stale: the test is left out.
StaleNever(x, sn) == FALSE

\* The test of line 62: the popped edge leads to a node already seen.
Stale(x, sn) == x.v \in sn

\* The for loop of lines 57 to 59: every edge of start is pushed.
RECURSIVE PushSeed(_, _, _, _)
PushSeed(h, E, es, u) ==
    IF es = <<>> THEN h
    ELSE PushSeed(HeapPush(h, HeapEdge(u, E[Head(es)].v, E[Head(es)].wt)),
                  E, Tail(es), u)

\* The for loop of lines 73 to 77: the edges of v to nodes not yet seen.
RECURSIVE PushFrontier(_, _, _, _, _)
PushFrontier(h, E, es, v, sn) ==
    IF es = <<>> THEN h
    ELSE IF E[Head(es)].v \notin sn
    THEN PushFrontier(HeapPush(h, HeapEdge(v, E[Head(es)].v, E[Head(es)].wt)),
                      E, Tail(es), v, sn)
    ELSE PushFrontier(h, E, Tail(es), v, sn)

\* Mutant of MstEntry: the two ids in the wrong order.
MstEntrySwapped(N, x) == <<N[x.v], N[x.u], 0 - x.wt>>

\* The tuple of lines 67 to 71: external ids and the weight made positive.
MstEntry(N, x) == <<N[x.u], N[x.v], 0 - x.wt>>

\* ------------------------------------------------------------- lifecycle

MaxThreads == 2
Threads == 1..MaxThreads

\* The capacity of the channel that Core::new creates.
QueueCap == 1024

\* Core::new: not running, the lock free, nothing sent, no call under way.
CoreNew ==
    /\ running = FALSE
    /\ writer = 0
    /\ queue = <<>>
    /\ tpc = [t \in Threads |-> "idle"]
    /\ lastOp = "none"
    /\ observed = <<>>

\* Mutant of LockFree: the lock is given to whoever asks.
LockFreeAlways(w) == TRUE

\* RwLock::write and RwLock::read wait until no thread holds the write lock
\* (a read lock is held for the one read of is_running only).
LockFree(w) == w = 0

\* Mutant of StartNeeded: the test of running is left out.
StartAlways(r) == TRUE

\* The test of line 43.
StartNeeded(r) == ~r

\* The test of line 51.
StopNeeded(r) == r

\* Sender::send on a bounded channel returns once there is room; the channel
\* is never disconnected, since the Core keeps rx.
HasRoom(q) == Len(q) < QueueCap

\* A thread calls start, stop or is_running, and comes to the lock.
StartCall(t) ==
    /\ tpc[t] = "idle"
    /\ tpc' = [tpc EXCEPT ![t] = "start"]
    /\ UNCHANGED <<running, writer, queue, lastOp, observed>>
    /\ UNCHANGED <<graphVars, prsVars>>

StopCall(t) ==
    /\ tpc[t] = "idle"
    /\ tpc' = [tpc EXCEPT ![t] = "stop"]
    /\ UNCHANGED <<running, writer, queue, lastOp, observed>>
    /\ UNCHANGED <<graphVars, prsVars>>

IsRunningCall(t) ==
    /\ tpc[t] = "idle"
    /\ tpc' = [tpc EXCEPT ![t] = "is_running"]
    /\ UNCHANGED <<running, writer, queue, lastOp, observed>>
    /\ UNCHANGED <<graphVars, prsVars>>

\* Line 42: start takes the write lock.
StartLock(t) ==
    /\ tpc[t] = "start"
    /\ LockFree(writer)
    /\ writer' = t
    /\ tpc' = [tpc EXCEPT ![t] = "start_locked"]
    /\ lastOp' = "start"
    /\ UNCHANGED <<running, queue, observed>>
    /\ UNCHANGED <<graphVars, prsVars>>

\* Lines 43 and 44: the flag is set if it was not, else start returns and
\* the lock is released.
StartSet(t) ==
    /\ tpc[t] = "start_locked"
    /\ IF StartNeeded(running)
       THEN /\ running' = TRUE
            /\ tpc' = [tpc EXCEPT ![t] = "start_send"]
            /\ UNCHANGED writer
       ELSE /\ tpc' = [tpc EXCEPT ![t] = "idle"]
            /\ writer' = 0
            /\ UNCHANGED running
    /\ UNCHANGED <<queue, lastOp, observed>>
    /\ UNCHANGED <<graphVars, prsVars>>

\* Line 45: the event is sent, start returns and the lock is released.
StartSend(t) ==
    /\ tpc[t] = "start_send"
    /\ HasRoom(queue)
    /\ queue' = Append(queue, "Start")
    /\ tpc' = [tpc EXCEPT ![t] = "idle"]
    /\ writer' = 0
    /\ UNCHANGED <<running, lastOp, observed>>
    /\ UNCHANGED <<graphVars, prsVars>>

\* Line 50.
StopLock(t) ==
    /\ tpc[t] = "stop"
    /\ LockFree(writer)
    /\ writer' = t
    /\ tpc' = [tpc EXCEPT ![t] = "stop_locked"]
    /\ lastOp' = "stop"
    /\ UNCHANGED <<running, queue, observed>>
    /\ UNCHANGED <<graphVars, prsVars>>

\* Lines 51 and 52.
StopSet(t) ==
    /\ tpc[t] = "stop_locked"
    /\ IF StopNeeded(running)
       THEN /\ running' = FALSE
            /\ tpc' = [tpc EXCEPT ![t] = "stop_send"]
            /\ UNCHANGED writer
       ELSE /\ tpc' = [tpc EXCEPT ![t] = "idle"]
            /\ writer' = 0
            /\ UNCHANGED running
    /\ UNCHANGED <<queue, lastOp, observed>>
    /\ UNCHANGED <<graphVars, prsVars>>

\* Line 53.
StopSend(t) ==
    /\ tpc[t] = "stop_send"
    /\ HasRoom(queue)
    /\ queue' = Append(queue, "Stop")
    /\ tpc' = [tpc EXCEPT ![t] = "idle"]
    /\ writer' = 0
    /\ UNCHANGED <<running, lastOp, observed>>
    /\ UNCHANGED <<graphVars, prsVars>>

\* Line 58: the read lock is taken, the flag read, the lock released.
IsRunningRead(t) ==
    /\ tpc[t] = "is_running"
    /\ LockFree(writer)
    /\ observed' = <<running>>
    /\ tpc' = [tpc EXCEPT ![t] = "idle"]
    /\ UNCHANGED <<running, writer, queue, lastOp>>
    /\ UNCHANGED <<graphVars, prsVars>>

\* A step inside a call that is under way.
CoreStep(t) ==
    \/ StartLock(t)
    \/ StartSet(t)
    \/ StartSend(t)
    \/ StopLock(t)
    \/ StopSet(t)
    \/ StopSend(t)
    \/ IsRunningRead(t)

NextCore ==
    \E t \in Threads :
        \/ StartCall(t)
        \/ StopCall(t)
        \/ IsRunningCall(t)
        \/ CoreStep(t)

\* ------------------------------------------------------------- parser

MaxLen == 5
MaxParses == 2
MaxDigits == 1

\* Characters are strings of length one, a string is a sequence of them.
Digits == {"0", "1", "2", "3", "4", "5", "6", "7", "8", "9"}
Letters ==
    {"a", "b", "c", "d", "e", "f", "g", "h", "i", "j", "k", "l", "m",
     "n", "o", "p", "q", "r", "s", "t", "u", "v", "w", "x", "y", "z",
     "A", "B", "C", "D", "E", "F", "G", "H", "I", "J", "K", "L", "M",
     "N", "O", "P", "Q", "R", "S", "T", "U", "V", "W", "X", "Y", "Z", "_"}
Ops == {"+", "-", "*", "/", "^"}

\* The characters the inputs are made of, and the inputs.
Alphabet == {"0", "2", "x", "+", "-", "*", "/", "^"}
Inputs == UNION {[1..n -> Alphabet] : n \in 0..MaxLen}

\* f64 values, kept exact: fractions n / d in lowest terms with d > 0.
Abs(a) == IF a < 0 THEN 0 - a ELSE a

RECURSIVE GCD(_, _)
GCD(a, b) == IF b = 0 THEN a ELSE GCD(b, a % b)

Rat(n, d) ==
    LET g == GCD(Abs(n), Abs(d))
        sgn == IF d < 0 THEN 0 - 1 ELSE 1
    IN  [n |-> sgn * (n \div g), d |-> sgn * (d \div g)]

Zero == Rat(0, 1)
RatAdd(a, b) == Rat(a.n * b.d + b.n * a.d, a.d * b.d)
RatSub(a, b) == Rat(a.n * b.d - b.n * a.d, a.d * b.d)
RatMul(a, b) == Rat(a.n * b.n, a.d * b.d)
RatDiv(a, b) == Rat(a.n * b.d, a.d * b.n)

DigitVal(c) == CHOOSE k \in 0..9 : c = <<"0", "1", "2", "3", "4", "5", "6", "7", "8", "9">>[k + 1]

RECURSIVE DecVal(_)
DecVal(ds) ==
    IF ds = <<>> THEN 0
    ELSE 10 * DecVal(SubSeq(ds, 1, Len(ds) - 1)) + DigitVal(ds[Len(ds)])

RECURSIVE Pow10(_)
Pow10(k) == IF k = 0 THEN 1 ELSE 10 * Pow10(k - 1)

\* str::parse::<f64> on a string of digits and dots that starts with a
\* digit: an error with more than one dot.
ParseF64(val) ==
    LET dots == {i \in 1..Len(val) : val[i] = "."}
    IN  IF Cardinality(dots) > 1 THEN [ok |-> FALSE, val |-> Zero]
        ELSE IF dots = {} THEN [ok |-> TRUE, val |-> Rat(DecVal(val), 1)]
        ELSE LET k == CHOOSE i \in dots : TRUE
                 frac == SubSeq(val, k + 1, Len(val))
             IN  [ok |-> TRUE,
                  val |-> Rat(DecVal(SubSeq(val, 1, k - 1) \o frac),
                              Pow10(Len(frac)))]

\* The inner while loops of lex: the index after the run of characters of
\* S that starts at i.
RECURSIVE RunEnd(_, _, _)
RunEnd(inp, i, S) ==
    IF i <= Len(inp) /\ inp[i] \in S THEN RunEnd(inp, i + 1, S) ELSE i

\* Prs::lex from the i-th character on; i - 1 is lex's pos.
RECURSIVE LexFrom(_, _, _)
LexFrom(inp, i, acc) ==
    IF i > Len(inp) THEN acc
    ELSE IF inp[i] \in Digits
    THEN LET j == RunEnd(inp, i, Digits \cup {"."})
         IN  LexFrom(inp, j, Append(acc, [val |-> SubSeq(inp, i, j - 1),
                                          pos |-> j - 1, typ |-> "Num"]))
    ELSE IF inp[i] \in Letters
    THEN LET j == RunEnd(inp, i, Letters \cup Digits)
         IN  LexFrom(inp, j, Append(acc, [val |-> SubSeq(inp, i, j - 1),
                                          pos |-> j - 1, typ |-> "Id"]))
    ELSE IF inp[i] \in Ops
    THEN LexFrom(inp, i + 1, Append(acc, [val |-> <<inp[i]>>,
                                          pos |-> i - 1, typ |-> "Op"]))
    ELSE LexFrom(inp, i + 1, acc)

lex(inp) == LexFrom(inp, 1, <<>>)

\* PrsCtx.syms: nothing is ever inserted.
syms == [name \in {} |-> Zero]

\* What expr, term and factor give: Ok(val) or Err(err), and Prs.idx after.
Ok(v, i) == [ok |-> TRUE, val |-> v, err |-> "", idx |-> i]
Err(e, i) == [ok |-> FALSE, val |-> Zero, err |-> e, idx |-> i]

\* Prs::factor with Prs.idx = i.
factor(T, i) ==
    IF i >= Len(T) THEN Err("UnexpectedEOF", i)
    ELSE LET tok == T[i + 1]
         IN  IF tok.typ = "Num"
             THEN LET r == ParseF64(tok.val)
                  IN  IF r.ok THEN Ok(r.val, i + 1)
                      ELSE Err("InvalidToken", i + 1)
             ELSE IF tok.typ = "Id"
             THEN IF tok.val \in DOMAIN syms THEN Ok(syms[tok.val], i + 1)
                  ELSE Err("Syntax", i + 1)
             ELSE Err("InvalidToken", i + 1)

\* The while loop of Prs::term, lines 140 to 156.
RECURSIVE TermLoop(_, _, _)
TermLoop(T, lhs, i) ==
    IF i < Len(T) /\ T[i + 1].val = <<"*">>
    THEN LET f == factor(T, i + 1)
         IN  IF ~f.ok THEN f ELSE TermLoop(T, RatMul(lhs, f.val), f.idx)
    ELSE IF i < Len(T) /\ T[i + 1].val = <<"/">>
    THEN LET f == factor(T, i + 1)
         IN  IF ~f.ok THEN f
             ELSE IF f.val = Zero THEN Err("Syntax", f.idx)
             ELSE TermLoop(T, RatDiv(lhs, f.val), f.idx)
    ELSE Ok(lhs, i)

\* Prs::term
term(T, i) ==
    LET f == factor(T, i)
    IN  IF ~f.ok THEN f ELSE TermLoop(T, f.val, f.idx)

\* The while loop of Prs::expr, lines 121 to 133.
RECURSIVE ExprLoop(_, _, _)
ExprLoop(T, lhs, i) ==
    IF i < Len(T) /\ T[i + 1].val = <<"+">>
    THEN LET t == term(T, i + 1)
         IN  IF ~t.ok THEN t ELSE ExprLoop(T, RatAdd(lhs, t.val), t.idx)
    ELSE IF i < Len(T) /\ T[i + 1].val = <<"-">>
    THEN LET t == term(T, i + 1)
         IN  IF ~t.ok THEN t ELSE ExprLoop(T, RatSub(lhs, t.val), t.idx)
    ELSE Ok(lhs, i)

\* Prs::expr
expr(T, i) ==
    LET t == term(T, i)
    IN  IF ~t.ok THEN t ELSE ExprLoop(T, t.val, t.idx)

\* Prs::parse
parse(T, i) == expr(T, i)

\* No parser is in use.
PrsNone ==
    /\ input = <<>>
    /\ toks = <<>>
    /\ idx = 0
    /\ out = [typ |-> "none"]
    /\ parses = 0

\* ------------------------------------------------------------- actions

NoRet == [op |-> "none", args |-> <<>>, val |-> 0]

Init ==
    /\ nodes = NewGraph.nodes
    /\ edges = NewGraph.edges
    /\ idx_map = NewGraph.idx_map
    /\ pc = "idle"
    /\ source = 0
    /\ sink = 0
    /\ flow = 0
    /\ min_cap = INFINITY
    /\ path = <<>>
    /\ res = <<>>
    /\ seen = {}
    /\ heap = EmptyBag
    /\ ret = NoRet
    /\ pre = NewGraph
    /\ repeat = "off"
    /\ CoreNew
    /\ PrsNone

\* The ids a caller passes to add_nd: one already used, or the next unused
\* one (ids are only names: numbering them in order of first use loses no
\* behaviour).
FreshOrUsed == {i \in Ids : i <= Cardinality(DOMAIN idx_map) + 1}

\* The next value of repeat, where it is kept.
Track(b) == IF repeat = "off" THEN "off" ELSE b

FlowLocalsUnchanged == UNCHANGED <<source, sink, flow, min_cap, path>>
MstLocalsUnchanged == UNCHANGED <<res, seen, heap>>

SetGraph(G) ==
    /\ nodes' = G.nodes
    /\ edges' = G.edges
    /\ idx_map' = G.idx_map

AddNd(id) ==
    /\ pc = "idle"
    /\ Len(nodes) < MaxNodes
    /\ id \in FreshOrUsed
    /\ SetGraph(add_nd(Graph, id))
    /\ ret' = [op |-> "add_nd", args |-> <<>>, val |-> Len(nodes) + 1]
    /\ pre' = Graph
    /\ UNCHANGED pc
    /\ FlowLocalsUnchanged
    /\ MstLocalsUnchanged
    /\ repeat' = Track("no")
    /\ UNCHANGED <<coreVars, prsVars>>

AddEd(from, to, wt) ==
    /\ pc = "idle"
    /\ Len(edges) < MaxEdges
    /\ from \in DOMAIN idx_map
    /\ to \in DOMAIN idx_map
    /\ SetGraph(add_ed(Graph, from, to, wt))
    /\ ret' = [op |-> "add_ed", args |-> <<>>, val |-> "ok"]
    /\ pre' = Graph
    /\ UNCHANGED pc
    /\ FlowLocalsUnchanged
    /\ MstLocalsUnchanged
    /\ repeat' = Track("no")
    /\ UNCHANGED <<coreVars, prsVars>>

\* add_ed with an id that is not a key of idx_map: the index expression of
\* line 45 or 46 panics, before anything is written.
AddEdPanic(from, to, wt) ==
    /\ pc = "idle"
    /\ from \notin DOMAIN idx_map \/ to \notin DOMAIN idx_map
    /\ pc' = "panic"
    /\ ret' = [op |-> "add_ed", args |-> <<>>, val |-> "panic"]
    /\ pre' = Graph
    /\ UNCHANGED <<nodes, edges, idx_map>>
    /\ FlowLocalsUnchanged
    /\ MstLocalsUnchanged
    /\ repeat' = Track("no")
    /\ UNCHANGED <<coreVars, prsVars>>

\* max_flow, lines 84 to 86.
MaxFlowCall(s, t) ==
    /\ pc = "idle"
    /\ s \in DOMAIN idx_map
    /\ t \in DOMAIN idx_map
    /\ pc' = "max_flow"
    /\ source' = idx_map[s]
    /\ sink' = idx_map[t]
    /\ flow' = 0
    /\ min_cap' = INFINITY
    /\ path' = <<>>
    /\ ret' = NoRet
    /\ pre' = Graph
    /\ UNCHANGED <<nodes, edges, idx_map>>
    /\ MstLocalsUnchanged
    /\ repeat' = Track(IF ret.op = "max_flow"
                              /\ ret.args = <<idx_map[s], idx_map[t]>>
                           THEN "yes" ELSE "no")
    /\ UNCHANGED <<coreVars, prsVars>>

\* max_flow with an id that is not a key of idx_map panics at line 84 or 85.
MaxFlowPanic(s, t) ==
    /\ pc = "idle"
    /\ s \notin DOMAIN idx_map \/ t \notin DOMAIN idx_map
    /\ pc' = "panic"
    /\ ret' = [op |-> "max_flow", args |-> <<>>, val |-> "panic"]
    /\ pre' = Graph
    /\ UNCHANGED <<nodes, edges, idx_map>>
    /\ FlowLocalsUnchanged
    /\ MstLocalsUnchanged
    /\ repeat' = Track("no")
    /\ UNCHANGED <<coreVars, prsVars>>

\* One iteration of max_flow's loop that finds a path, lines 89 to 109.
MaxFlowAugment ==
    /\ pc = "max_flow"
    /\ LET p == find_path(edges, Len(nodes), source, sink)
           m == Bottleneck(edges, p)
       IN  /\ p # <<>>
           /\ path' = p
           /\ min_cap' = m
           /\ edges' = Augment(edges, p, m)
           /\ flow' = flow + m
    /\ UNCHANGED <<nodes, idx_map, pc, source, sink, ret, pre>>
    /\ MstLocalsUnchanged
    /\ UNCHANGED repeat
    /\ UNCHANGED <<coreVars, prsVars>>

\* The iteration that finds no path: break, and return flow.
MaxFlowReturn ==
    /\ pc = "max_flow"
    /\ find_path(edges, Len(nodes), source, sink) = <<>>
    /\ pc' = "idle"
    /\ ret' = [op |-> "max_flow", args |-> <<source, sink>>,
               val |-> MaxFlowResult(flow, min_cap)]
    /\ source' = 0
    /\ sink' = 0
    /\ flow' = 0
    /\ min_cap' = INFINITY
    /\ path' = <<>>
    /\ UNCHANGED <<nodes, edges, idx_map, pre>>
    /\ MstLocalsUnchanged
    /\ UNCHANGED repeat
    /\ UNCHANGED <<coreVars, prsVars>>

\* mst, lines 51 to 59: the first node is the start.
MstCall ==
    /\ pc = "idle"
    /\ pc' = "mst"
    /\ res' = <<>>
    /\ IF nodes # <<>>
       THEN /\ seen' = {1}
            /\ heap' = PushSeed(EmptyBag, edges, OutEdges(edges, 1), 1)
       ELSE /\ seen' = {}
            /\ heap' = EmptyBag
    /\ ret' = NoRet
    /\ pre' = Graph
    /\ UNCHANGED <<nodes, edges, idx_map>>
    /\ FlowLocalsUnchanged
    /\ repeat' = Track("no")
    /\ UNCHANGED <<coreVars, prsVars>>

\* One iteration of mst's while loop, lines 61 to 78.
MstPop ==
    /\ pc = "mst"
    /\ \E x \in HeapTop(heap) :
         LET h == heap (-) SetToBag({x})
         IN  IF Stale(x, seen)
             THEN /\ heap' = h
                  /\ UNCHANGED <<seen, res>>
             ELSE /\ seen' = seen \cup {x.v}
                  /\ res' = Append(res, MstEntry(nodes, x))
                  /\ heap' = PushFrontier(h, edges, OutEdges(edges, x.v), x.v,
                                          seen \cup {x.v})
    /\ UNCHANGED <<nodes, edges, idx_map, pc, ret, pre>>
    /\ FlowLocalsUnchanged
    /\ repeat' = Track("no")
    /\ UNCHANGED <<coreVars, prsVars>>

\* The heap is empty: mst returns res.
MstReturn ==
    /\ pc = "mst"
    /\ heap = EmptyBag
    /\ pc' = "idle"
    /\ ret' = [op |-> "mst", args |-> <<>>, val |-> res]
    /\ res' = <<>>
    /\ seen' = {}
    /\ heap' = EmptyBag
    /\ UNCHANGED <<nodes, edges, idx_map, pre>>
    /\ FlowLocalsUnchanged
    /\ repeat' = Track("no")
    /\ UNCHANGED <<coreVars, prsVars>>

\* A caller's insertion of one undirected edge: both directions, with the
\* same weight (two calls of add_ed).
AddEdSym(a, b, wt) ==
    /\ pc = "idle"
    /\ Len(edges) + 2 <= 2 * MaxSymEdges
    /\ a \in DOMAIN idx_map
    /\ b \in DOMAIN idx_map
    /\ SetGraph(add_ed(add_ed(Graph, a, b, wt), b, a, wt))
    /\ ret' = [op |-> "add_ed", args |-> <<>>, val |-> "ok"]
    /\ pre' = Graph
    /\ UNCHANGED pc
    /\ FlowLocalsUnchanged
    /\ MstLocalsUnchanged
    /\ repeat' = Track("no")
    /\ UNCHANGED <<coreVars, prsVars>>

\* ------------------------------------------------------------- specifications

\* The registry and max_flow.  mst reads the nodes, the endpoints and the
\* weights only, none of which max_flow writes, and writes nothing of the
\* graph: it is checked under SpecMst and SpecSym.
Next ==
    \/ \E id \in Ids : AddNd(id)
    \/ \E from \in Ids, to \in Ids, wt \in Caps : AddEd(from, to, wt)
    \/ \E from \in Ids, to \in Ids, wt \in Caps : AddEdPanic(from, to, wt)
    \/ \E s \in Ids, t \in Ids : MaxFlowCall(s, t)
    \/ \E s \in Ids, t \in Ids : MaxFlowPanic(s, t)
    \/ MaxFlowAugment
    \/ MaxFlowReturn

Spec == Init /\ [][Next]_vars

\* The registry and mst, on directed graphs.
NextMst ==
    \/ \E id \in Ids : AddNd(id)
    \/ \E from \in Ids, to \in Ids, wt \in Caps : AddEd(from, to, wt)
    \/ MstCall
    \/ MstPop
    \/ MstReturn

SpecMst == Init /\ [][NextMst]_vars

\* The registry and mst, on graphs whose edges are all inserted in both
\* directions.
NextSym ==
    \/ \E id \in Ids : AddNd(id)
    \/ \E a \in Ids, b \in Ids, wt \in Weights : AddEdSym(a, b, wt)
    \/ MstCall
    \/ MstPop
    \/ MstReturn

SpecSym == Init /\ [][NextSym]_vars

\* The graph of the max-flow scenario: nodes 1, 2, 3, 4 and the edges
\* 1->2 (3), 1->3 (2), 2->4 (2), 3->4 (3), inserted in that order.
ScenarioGraph ==
    add_ed(add_ed(add_ed(add_ed(
        add_nd(add_nd(add_nd(add_nd(NewGraph, 1), 2), 3), 4),
        1, 2, 3), 1, 3, 2), 2, 4, 2), 3, 4, 3)

InitScenario ==
    /\ nodes = ScenarioGraph.nodes
    /\ edges = ScenarioGraph.edges
    /\ idx_map = ScenarioGraph.idx_map
    /\ pc = "idle"
    /\ source = 0
    /\ sink = 0
    /\ flow = 0
    /\ min_cap = INFINITY
    /\ path = <<>>
    /\ res = <<>>
    /\ seen = {}
    /\ heap = EmptyBag
    /\ ret = NoRet
    /\ pre = ScenarioGraph
    /\ repeat = "off"
    /\ CoreNew
    /\ PrsNone

NextScenario ==
    \/ \E s \in DOMAIN idx_map, t \in DOMAIN idx_map : MaxFlowCall(s, t)
    \/ MaxFlowAugment
    \/ MaxFlowReturn

SpecScenario == InitScenario /\ [][NextScenario]_vars

\* The graph on which a fewest-hops path blocks the maximum: s = 1, t = 2,
\* a = 3, b = 4, x = 5, y = 6, u = 7, v = 8 and the unit edges s->a, a->b,
\* b->t, a->x, x->y, y->t, s->u, u->v, v->b, inserted in that order.
CancelGraph ==
    add_ed(add_ed(add_ed(add_ed(add_ed(add_ed(add_ed(add_ed(add_ed(
        add_nd(add_nd(add_nd(add_nd(add_nd(add_nd(add_nd(add_nd(NewGraph,
            1), 2), 3), 4), 5), 6), 7), 8),
        1, 3, 1), 3, 4, 1), 4, 2, 1), 3, 5, 1), 5, 6, 1), 6, 2, 1),
        1, 7, 1), 7, 8, 1), 8, 4, 1)

InitCancel ==
    /\ nodes = CancelGraph.nodes
    /\ edges = CancelGraph.edges
    /\ idx_map = CancelGraph.idx_map
    /\ pc = "idle"
    /\ source = 0
    /\ sink = 0
    /\ flow = 0
    /\ min_cap = INFINITY
    /\ path = <<>>
    /\ res = <<>>
    /\ seen = {}
    /\ heap = EmptyBag
    /\ ret = NoRet
    /\ pre = CancelGraph
    /\ repeat = "off"
    /\ CoreNew
    /\ PrsNone

\* The registry and max_flow as in Spec, started from the empty graph or
\* from CancelGraph (on which only max_flow calls are left to make).
SpecCancel == (Init \/ InitCancel) /\ [][Next]_vars

\* Any number of calls of start, stop and is_running from the threads, in
\* any interleaving.
SpecCore == Init /\ [][NextCore]_vars

\* The registry and max_flow as in Spec, with the history of repeated
\* max_flow calls kept.
InitRepeat ==
    /\ nodes = NewGraph.nodes
    /\ edges = NewGraph.edges
    /\ idx_map = NewGraph.idx_map
    /\ pc = "idle"
    /\ source = 0
    /\ sink = 0
    /\ flow = 0
    /\ min_cap = INFINITY
    /\ path = <<>>
    /\ res = <<>>
    /\ seen = {}
    /\ heap = EmptyBag
    /\ ret = NoRet
    /\ pre = NewGraph
    /\ repeat = "no"
    /\ CoreNew
    /\ PrsNone

SpecRepeat == InitRepeat /\ [][Next]_vars

\* SpecCore with the scheduling that the code relies on: a thread that is
\* not waiting goes on, and a thread that waits for the lock gets it if the
\* lock is free again and again (parking_lot's locks are eventually fair).
SpecCoreFair ==
    /\ SpecCore
    /\ \A t \in Threads :
         /\ WF_vars(StartSet(t) \/ StartSend(t) \/ StopSet(t) \/ StopSend(t))
         /\ SF_vars(StartLock(t) \/ StopLock(t) \/ IsRunningRead(t))

\* Prs::new(input) for each of the inputs.
InitPrs ==
    /\ nodes = NewGraph.nodes
    /\ edges = NewGraph.edges
    /\ idx_map = NewGraph.idx_map
    /\ pc = "idle"
    /\ source = 0
    /\ sink = 0
    /\ flow = 0
    /\ min_cap = INFINITY
    /\ path = <<>>
    /\ res = <<>>
    /\ seen = {}
    /\ heap = EmptyBag
    /\ ret = NoRet
    /\ pre = NewGraph
    /\ repeat = "off"
    /\ CoreNew
    /\ input \in Inputs
    /\ toks = lex(input)
    /\ idx = 0
    /\ out = [typ |-> "none"]
    /\ parses = 0

\* A call of parse; a later call goes on from where the one before stopped.
Parse ==
    /\ parses < MaxParses
    /\ LET r == parse(toks, idx)
       IN  /\ idx' = r.idx
           /\ out' = IF r.ok THEN [typ |-> "Ok", val |-> r.val]
                     ELSE [typ |-> "Err", err |-> r.err]
    /\ parses' = parses + 1
    /\ UNCHANGED <<input, toks>>
    /\ UNCHANGED <<graphVars, coreVars>>

NextPrs == Parse

SpecPrs == InitPrs /\ [][NextPrs]_vars

\* ------------------------------------------------------------- properties

RECURSIVE SumSeq(_)
SumSeq(q) == IF q = <<>> THEN 0 ELSE Head(q) + SumSeq(Tail(q))

ZeroFlows(E) == \A k \in 1..Len(E) : E[k].flow = 0

OutFlow(E, n) == SumSeq([k \in 1..Len(E) |-> IF E[k].u = n THEN E[k].flow ELSE 0])
InFlow(E, n) == SumSeq([k \in 1..Len(E) |-> IF E[k].v = n THEN E[k].flow ELSE 0])
OutCap(E, n) == SumSeq([k \in 1..Len(E) |-> IF E[k].u = n THEN E[k].wt ELSE 0])

\* A max_flow call is running, or was the last call and has returned.
InMaxFlow == pc = "max_flow"
MaxFlowReturned == pc = "idle" /\ ret.op = "max_flow"
CallSource == IF InMaxFlow THEN source ELSE ret.args[1]
CallSink == IF InMaxFlow THEN sink ELSE ret.args[2]

\* The nodes that a directed path of edges with wt - flow > 0 leads to from
\* s, computed as a least fixed point (not by find_path's search).
RECURSIVE ResidualClosure(_, _)
ResidualClosure(E, S) ==
    LET T == S \cup {E[k].v : k \in {j \in 1..Len(E) :
                                        E[j].u \in S /\ E[j].wt - E[j].flow > 0}}
    IN  IF T = S THEN S ELSE ResidualClosure(E, T)

ResidualReach(E, s) == ResidualClosure(E, {s})

\* C1: every edge satisfies 0 <= flow <= capacity, in every state: after each
\* augmentation, at every return, and over any number of max_flow calls.
C1_CapacityInvariant ==
    \A k \in 1..Len(edges) : 0 <= edges[k].flow /\ edges[k].flow <= edges[k].wt

\* A second max_flow call has pushed flow, and has left one edge full and
\* another partly used.
C1_Witness ==
    /\ MaxFlowReturned
    /\ ~ZeroFlows(pre.edges)
    /\ ret.val > 0
    /\ \E k \in 1..Len(edges) : edges[k].wt > 0 /\ edges[k].flow = edges[k].wt
    /\ \E k \in 1..Len(edges) : 0 < edges[k].flow /\ edges[k].flow < edges[k].wt

\* C2: during and after a max_flow call that started with all flows 0, every
\* node other than the source and the sink has as much flow coming in as
\* going out.
C2_Conservation ==
    ((InMaxFlow \/ MaxFlowReturned) /\ ZeroFlows(pre.edges))
        => \A n \in 1..Len(nodes) :
             (n # CallSource /\ n # CallSink) => InFlow(edges, n) = OutFlow(edges, n)

\* A call from all flows 0 has returned having pushed flow through a node
\* that is neither the source nor the sink.
C2_Witness ==
    /\ MaxFlowReturned
    /\ ZeroFlows(pre.edges)
    /\ \E n \in 1..Len(nodes) :
         n # CallSource /\ n # CallSink /\ InFlow(edges, n) > 0

\* C3: max_flow terminates because every augmentation adds a strictly
\* positive amount: in every state of the loop either no path is found (the
\* call returns) or the path found has a bottleneck above 0.
C3_EveryAugmentationPositive ==
    InMaxFlow =>
        LET p == find_path(edges, Len(nodes), source, sink)
        IN  p = <<>> \/ Bottleneck(edges, p) > 0

\* C4: on the scenario graph, max_flow(1, 4) from all flows 0 returns 4;
\* each of its augmentations pushes 2, along 1-2-4 or along 1-3-4, and in the
\* end every edge carries 2.
C4_Scenario ==
    /\ (InMaxFlow /\ source = 1 /\ sink = 4 /\ ZeroFlows(pre.edges) /\ path # <<>>)
         => /\ min_cap = 2
            /\ path \in {<<1, 2, 4>>, <<1, 3, 4>>}
    /\ (MaxFlowReturned /\ ret.args = <<1, 4>> /\ ZeroFlows(pre.edges))
         => /\ ret.val = 4
            /\ [k \in 1..Len(edges) |-> edges[k].flow] = <<2, 2, 2, 2>>

\* max_flow(1, 4) has returned on the scenario graph, from all flows 0.
C4_Witness ==
    /\ MaxFlowReturned
    /\ ret.args = <<1, 4>>
    /\ ZeroFlows(pre.edges)
    /\ pre.edges = ScenarioGraph.edges
    /\ ret.val = 4

\* C5: when a max_flow call that started with all flows 0 and s # t returns,
\* the total returned is the net flow out of s and the net flow into t (and
\* the running total is, after every augmentation).
C5_ValueMatchesFlows ==
    /\ (MaxFlowReturned /\ ZeroFlows(pre.edges) /\ CallSource # CallSink)
         => /\ ret.val = OutFlow(edges, CallSource) - InFlow(edges, CallSource)
            /\ ret.val = InFlow(edges, CallSink) - OutFlow(edges, CallSink)
    /\ (InMaxFlow /\ ZeroFlows(pre.edges) /\ source # sink)
         => /\ flow = OutFlow(edges, source) - InFlow(edges, source)
            /\ flow = InFlow(edges, sink) - OutFlow(edges, sink)

\* A call from all flows 0 has returned a total of two augmentations over
\* two different edges out of the source.
C5_Witness ==
    /\ MaxFlowReturned
    /\ ZeroFlows(pre.edges)
    /\ CallSource # CallSink
    /\ ret.val >= 2
    /\ Cardinality({k \in 1..Len(edges) :
                      edges[k].u = CallSource /\ edges[k].flow > 0}) >= 2

\* C6: the total returned by a max_flow call that started with all flows 0
\* is at most the sum of the capacities of the edges whose tail is s.
C6_ValueBound ==
    (MaxFlowReturned /\ ZeroFlows(pre.edges))
        => ret.val <= OutCap(edges, CallSource)

\* A call from all flows 0 has returned a total above 0 that is exactly the
\* sum of the capacities out of s: the bound is met.
C6_Witness ==
    /\ MaxFlowReturned
    /\ ZeroFlows(pre.edges)
    /\ ret.val > 0
    /\ ret.val = OutCap(edges, CallSource)

\* C7: when no directed path of edges with wt - flow > 0 leads from s to t
\* at the call, the first search finds no path, so that the call returns at
\* once, the total is 0 and every flow is as it was before the call.
C7_Disconnected ==
    /\ (InMaxFlow /\ sink \notin ResidualReach(pre.edges, source))
         => /\ find_path(edges, Len(nodes), source, sink) = <<>>
            /\ flow = 0
            /\ edges = pre.edges
    /\ (MaxFlowReturned /\ CallSink \notin ResidualReach(pre.edges, CallSource))
         => /\ ret.val = 0
            /\ edges = pre.edges

\* A call with s # t has returned 0 where no path with capacity left led
\* from s to t, although s has an edge (full from an earlier call) and t is
\* the head of an edge (of capacity 0).
C7_Witness ==
    /\ MaxFlowReturned
    /\ CallSource # CallSink
    /\ CallSink \notin ResidualReach(pre.edges, CallSource)
    /\ ret.val = 0
    /\ \E k \in 1..Len(edges) :
         edges[k].u = CallSource /\ edges[k].wt > 0 /\ edges[k].flow = edges[k].wt
    /\ \E k \in 1..Len(edges) : edges[k].v = CallSink /\ edges[k].wt = 0

MstReturned == pc = "idle" /\ ret.op = "mst"

TotalWeight(val) == SumSeq([i \in 1..Len(val) |-> val[i][3]])

\* Every edge has as many copies as its reverse with the same weight.
Symmetric(E) ==
    \A k \in 1..Len(E) :
        Cardinality({j \in 1..Len(E) :
            E[j].u = E[k].u /\ E[j].v = E[k].v /\ E[j].wt = E[k].wt})
      = Cardinality({j \in 1..Len(E) :
            E[j].u = E[k].v /\ E[j].v = E[k].u /\ E[j].wt = E[k].wt})

\* The nodes joined to S by the edges T, taken in either direction.
RECURSIVE UndirectedClosure(_, _, _)
UndirectedClosure(E, T, S) ==
    LET X == S \cup {E[k].v : k \in {j \in T : E[j].u \in S}}
               \cup {E[k].u : k \in {j \in T : E[j].v \in S}}
    IN  IF X = S THEN S ELSE UndirectedClosure(E, T, X)

Connected(E, n) == n >= 1 /\ UndirectedClosure(E, 1..Len(E), {1}) = 1..n

RECURSIVE SumWt(_, _)
SumWt(E, T) ==
    IF T = {} THEN 0
    ELSE LET k == CHOOSE j \in T : TRUE IN E[k].wt + SumWt(E, T \ {k})

\* The reference: the least weight of n - 1 edges that join all n nodes,
\* found by trying every set of edges.
SpanningTrees(E, n) ==
    {T \in SUBSET (1..Len(E)) :
        Cardinality(T) = n - 1 /\ UndirectedClosure(E, T, {1}) = 1..n}

MinSpanWeight(E, n) ==
    LET W == {SumWt(E, T) : T \in SpanningTrees(E, n)}
    IN  CHOOSE w \in W : \A x \in W : w <= x

\* The spanning-tree scenario: nodes 1, 2, 3 and the edges (1,2) of weight
\* 1, (2,3) of weight 2 and (1,3) of weight 5, each in both directions.
IsMstScenario ==
    /\ nodes = <<1, 2, 3>>
    /\ Len(edges) = 6
    /\ {<<edges[k].u, edges[k].v, edges[k].wt>> : k \in 1..Len(edges)}
         = {<<1, 2, 1>>, <<2, 1, 1>>, <<2, 3, 2>>, <<3, 2, 2>>,
            <<1, 3, 5>>, <<3, 1, 5>>}

\* C8: on a connected graph whose edges are all inserted in both directions
\* with equal weight, the weights of the edges mst returns sum to the least
\* weight of a spanning tree; on the scenario graph they sum to 3.
C8_MstWeightOptimal ==
    /\ (MstReturned /\ Symmetric(edges) /\ Connected(edges, Len(nodes)))
         => TotalWeight(ret.val) = MinSpanWeight(edges, Len(nodes))
    /\ (MstReturned /\ IsMstScenario) => TotalWeight(ret.val) = 3

\* mst has returned on the scenario graph, with a total of 3.
C8_Witness ==
    /\ MstReturned
    /\ IsMstScenario
    /\ Symmetric(edges)
    /\ Connected(edges, Len(nodes))
    /\ TotalWeight(ret.val) = 3

\* The nodes that the outgoing edges lead to from the nodes S.
RECURSIVE OutClosure(_, _)
OutClosure(E, S) ==
    LET T == S \cup {E[k].v : k \in {j \in 1..Len(E) : E[j].u \in S}}
    IN  IF T = S THEN S ELSE OutClosure(E, T)

\* The nodes reachable from the start node, the first node inserted.
Reachable == IF nodes = <<>> THEN {} ELSE OutClosure(edges, {1})

\* C9: mst returns one edge for each node reachable from the start other
\* than the start: N - 1 edges, whose targets are those nodes, each once
\* (the result names a node by its id, so the ids of the targets are counted);
\* a graph with no node or with one node gives the empty result.
C9_MstEdgeCount ==
    MstReturned =>
        /\ Len(nodes) <= 1 => ret.val = <<>>
        /\ Len(nodes) >= 1 => Len(ret.val) = Cardinality(Reachable) - 1
        /\ \A id \in Ids :
             Cardinality({i \in 1..Len(ret.val) : ret.val[i][2] = id})
               = Cardinality({h \in Reachable \ {1} : nodes[h] = id})

\* mst has returned two edges on a graph of three nodes and three edges, two
\* of which lead to the same node from different nodes (one of them was
\* popped when its target was already seen, or never pushed).
C9_Witness ==
    /\ MstReturned
    /\ Len(nodes) = 3
    /\ Len(ret.val) = 2
    /\ \E j \in 1..Len(edges), k \in 1..Len(edges) :
         /\ edges[j].v = edges[k].v
         /\ edges[j].u # edges[k].u
         /\ edges[j].v \notin {1, edges[j].u, edges[k].u}

\* C10: an add_ed call with an id that add_nd never registered fails with a
\* lookup error returned to the caller, who goes on with the graph as it was:
\* no edge added, no node created, the index unchanged.
C10_FailureReturnsError ==
    (ret.op = "add_ed" /\ ret.val # "ok")
        => /\ pc = "idle"
           /\ ret.val = "LookupError"
           /\ Graph = pre

\* C11: every step of a max_flow call (its entry, each augmentation, its
\* return) leaves the nodes, the index, the number of edges and every edge's
\* endpoints and capacity as they are, and lowers no edge's flow.
C11_MaxFlowFrame ==
    [][(pc = "max_flow" \/ pc' = "max_flow")
          => /\ nodes' = nodes
             /\ idx_map' = idx_map
             /\ Len(edges') = Len(edges)
             /\ \A k \in 1..Len(edges) :
                  /\ edges'[k].u = edges[k].u
                  /\ edges'[k].v = edges[k].v
                  /\ edges'[k].wt = edges[k].wt
                  /\ edges'[k].flow >= edges[k].flow]_vars

\* A call is past an augmentation that raised the flow of two edges and left
\* a third edge as it was.
C11_Witness ==
    /\ InMaxFlow
    /\ flow > 0
    /\ Cardinality({k \in 1..Len(edges) : edges[k].flow > pre.edges[k].flow}) >= 2
    /\ \E k \in 1..Len(edges) : edges[k].flow = pre.edges[k].flow

\* The reference for the true maximum flow from s to t: the least capacity
\* of a cut, over every set of nodes that holds s and not t (by the max-flow
\* min-cut theorem this is what a solver with reverse residual edges finds).
CutCap(E, S) ==
    SumSeq([k \in 1..Len(E) |->
              IF E[k].u \in S /\ E[k].v \notin S THEN E[k].wt ELSE 0])

MinCut(E, n, s, t) ==
    LET W == {CutCap(E, S \cup {s}) : S \in SUBSET ((1..n) \ {s, t})}
    IN  CHOOSE w \in W : \A x \in W : w <= x

\* C12: the total max_flow returns for s # t is at most the true maximum
\* flow of the graph, and on CancelGraph max_flow(s, t) returns 1 where the
\* true maximum is 2.
C12_Underestimate ==
    /\ (MaxFlowReturned /\ CallSource # CallSink)
         => ret.val <= MinCut(edges, Len(nodes), CallSource, CallSink)
    /\ (MaxFlowReturned /\ pre = CancelGraph /\ ret.args = <<1, 2>>)
         => /\ ret.val = 1
            /\ MinCut(edges, Len(nodes), 1, 2) = 2

\* max_flow(s, t) has returned on CancelGraph with less than the maximum.
C12_Witness ==
    /\ MaxFlowReturned
    /\ pre = CancelGraph
    /\ ret.args = <<1, 2>>
    /\ ret.val < MinCut(edges, Len(nodes), 1, 2)

\* The fewest hops of a directed path from the node set S to t over edges
\* with wt - flow > 0, counted from d; -1 when there is none.
RECURSIVE ResidualHops(_, _, _, _)
ResidualHops(E, S, t, d) ==
    IF t \in S THEN d
    ELSE LET T == S \cup {E[k].v : k \in {j \in 1..Len(E) :
                                  E[j].u \in S /\ E[j].wt - E[j].flow > 0}}
         IN  IF T = S THEN 0 - 1 ELSE ResidualHops(E, T, t, d + 1)

ResidualPair(E, a, b) ==
    \E k \in 1..Len(E) : E[k].u = a /\ E[k].v = b /\ E[k].wt - E[k].flow > 0

\* C15: whenever max_flow searches from s to t # s, find_path returns a
\* non-empty path exactly if t is reachable over edges with capacity left,
\* and a returned path starts at s, ends at t, repeats no node, steps only
\* over pairs joined by an edge with capacity left, and has the fewest hops.
C15_FindPath ==
    (InMaxFlow /\ source # sink) =>
        LET p == find_path(edges, Len(nodes), source, sink)
        IN  /\ (p # <<>>) <=> (sink \in ResidualReach(edges, source))
            /\ p # <<>> =>
                 /\ p[1] = source
                 /\ p[Len(p)] = sink
                 /\ \A i \in 1..Len(p), j \in 1..Len(p) : p[i] = p[j] => i = j
                 /\ \A i \in 1..(Len(p) - 1) : ResidualPair(edges, p[i], p[i + 1])
                 /\ Len(p) - 1 = ResidualHops(edges, {source}, sink, 0)

\* The search takes a detour of two hops or more because the direct edge
\* from s to t is full.
C15_Witness ==
    /\ InMaxFlow
    /\ source # sink
    /\ Len(find_path(edges, Len(nodes), source, sink)) >= 3
    /\ \E k \in 1..Len(edges) :
         /\ edges[k].u = source
         /\ edges[k].v = sink
         /\ edges[k].wt > 0
         /\ edges[k].flow = edges[k].wt

\* The weights of the edges that lead from a node of S to a node outside.
CrossingWeights(E, S) ==
    {E[k].wt : k \in {j \in 1..Len(E) : E[j].u \in S /\ E[j].v \notin S}}

\* C16: while mst runs on a graph with a node, the start is visited and res
\* has one edge for every other visited node; a step that emits an edge
\* (u, v, w) visits exactly one new node v, which is not the start, from a
\* node u visited before, over an edge of the graph of weight w, and w is
\* the least weight of the edges from a visited to an unvisited node; a pop
\* that emits nothing leaves the visited set as it is.
C16_PrimStep ==
    [][(pc = "mst" /\ nodes # <<>>) =>
         /\ 1 \in seen
         /\ Len(res) = Cardinality(seen) - 1
         /\ (pc' = "mst" /\ res' # res) =>
              /\ Len(res') = Len(res) + 1
              /\ SubSeq(res', 1, Len(res)) = res
              /\ seen \subseteq seen'
              /\ Cardinality(seen' \ seen) = 1
              /\ LET v == CHOOSE n \in seen' \ seen : TRUE
                     e == res'[Len(res')]
                 IN  /\ v # 1
                     /\ v \notin seen
                     /\ e[2] = nodes[v]
                     /\ \E k \in 1..Len(edges) :
                          /\ edges[k].u \in seen
                          /\ edges[k].v = v
                          /\ edges[k].wt = e[3]
                          /\ nodes[edges[k].u] = e[1]
                     /\ \A w \in CrossingWeights(edges, seen) : e[3] <= w
         /\ (pc' = "mst" /\ res' = res) => seen' = seen]_vars

\* mst has emitted an edge, and its heap holds both an entry that will be
\* discarded (its target is visited) and one that leads to a new node.
C16_Witness ==
    /\ pc = "mst"
    /\ Len(res) >= 1
    /\ \E x \in BagToSet(heap) : x.v \in seen
    /\ \E y \in BagToSet(heap) : y.v \notin seen

\* The handle of the node inserted last under id.
LatestHandle(N, id) ==
    CHOOSE h \in 1..Len(N) :
        N[h] = id /\ \A g \in 1..Len(N) : N[g] = id => g <= h

\* C17: after any sequence of add_nd and add_ed calls the keys of idx_map
\* are the ids of the nodes inserted, each id maps to the handle of the node
\* inserted last under it (whose stored id is the key), distinct ids map to
\* distinct handles, an add_nd call has returned with its node stored, and
\* the handles that add_ed and max_flow resolve belong to nodes that no
\* later node of the same id shadows.
C17_IdentifierIndex ==
    /\ DOMAIN idx_map = {nodes[h] : h \in 1..Len(nodes)}
    /\ \A id \in DOMAIN idx_map :
         /\ idx_map[id] = LatestHandle(nodes, id)
         /\ nodes[idx_map[id]] = id
    /\ \A a \in DOMAIN idx_map, b \in DOMAIN idx_map :
         idx_map[a] = idx_map[b] => a = b
    /\ ret.op = "add_nd" =>
         /\ pc = "idle"
         /\ nodes = Append(pre.nodes, nodes[Len(nodes)])
         /\ ret.val = Len(nodes)
         /\ idx_map[nodes[Len(nodes)]] = Len(nodes)
    /\ (ret.op = "add_ed" /\ ret.val = "ok") =>
         /\ idx_map[nodes[edges[Len(edges)].u]] = edges[Len(edges)].u
         /\ idx_map[nodes[edges[Len(edges)].v]] = edges[Len(edges)].v
    /\ InMaxFlow =>
         /\ idx_map[nodes[source]] = source
         /\ idx_map[nodes[sink]] = sink

\* max_flow runs from a node whose id an earlier node carries too, and the
\* earlier node is still in the registry with an edge of its own.
C17_Witness ==
    /\ InMaxFlow
    /\ source # sink
    /\ \E h \in 1..Len(nodes) :
         /\ h < source
         /\ nodes[h] = nodes[source]
         /\ \E k \in 1..Len(edges) : edges[k].u = h

\* C20: a max_flow(s, t) call made right after a max_flow(s, t) call has
\* returned, on the graph as that call left it, finds no path with capacity
\* left, returns 0 and changes no edge.
C20_RepeatIsNoOp ==
    /\ (repeat = "yes" /\ InMaxFlow) =>
         /\ find_path(edges, Len(nodes), source, sink) = <<>>
         /\ flow = 0
         /\ edges = pre.edges
    /\ (repeat = "yes" /\ MaxFlowReturned) =>
         /\ ret.val = 0
         /\ edges = pre.edges

\* The second of two max_flow(s, t) calls with s # t has returned, on a
\* graph that carries the flow of the first.
C20_Witness ==
    /\ repeat = "yes"
    /\ MaxFlowReturned
    /\ ret.args[1] # ret.args[2]
    /\ ~ZeroFlows(edges)

\* C13: a start that finds the flag set, and a stop that finds it clear,
\* return with the flag and the queue as they were; whenever the write lock
\* is free the flag tells whether the call that took it last was start, and
\* that is what is_running returns.
C13_Idempotent ==
    [][/\ \A t \in Threads :
            /\ (tpc[t] = "start_locked" /\ tpc'[t] # "start_locked" /\ running)
                 => /\ running' = TRUE
                    /\ queue' = queue
                    /\ tpc'[t] = "idle"
            /\ (tpc[t] = "stop_locked" /\ tpc'[t] # "stop_locked" /\ ~running)
                 => /\ running' = FALSE
                    /\ queue' = queue
                    /\ tpc'[t] = "idle"
            /\ (tpc[t] = "is_running" /\ tpc'[t] = "idle")
                 => observed' = <<lastOp = "start">>
       /\ writer = 0 => running = (lastOp = "start")
       /\ writer' = 0 => running' = (lastOp' = "start")]_vars

\* A start call holds the lock and finds the flag set, after a start, a stop
\* and a start have each sent their event and is_running has returned true.
C13_Witness ==
    /\ \E t \in Threads : tpc[t] = "start_locked" /\ writer = t
    /\ running
    /\ Len(queue) = 3
    /\ observed = <<TRUE>>

\* C18: the events on the queue are Start, Stop, Start, ... in turn, and
\* whenever no call holds the write lock the flag is set exactly if their
\* number is odd.
C18_EventsAlternate ==
    /\ \A i \in 1..Len(queue) :
         queue[i] = IF i % 2 = 1 THEN "Start" ELSE "Stop"
    /\ writer = 0 => (running <=> Len(queue) % 2 = 1)

\* A stop call has cleared the flag and not yet sent its event, while the
\* other thread's start call waits for the lock.
C18_Witness ==
    /\ Len(queue) = 3
    /\ ~running
    /\ \E t \in Threads, u \in Threads :
         /\ tpc[t] = "stop_send"
         /\ writer = t
         /\ tpc[u] = "start"

\* C19: every call of start, stop or is_running that is under way returns.
C19_CallsReturn ==
    \A t \in Threads : (tpc[t] # "idle") ~> (tpc[t] = "idle")

\* A sequence of numbers joined by operators: a number at every odd place,
\* an operator at every even place, a number last.
WellFormed(T) ==
    /\ Len(T) % 2 = 1
    /\ \A k \in 1..Len(T) :
         IF k % 2 = 1
         THEN T[k].typ = "Num" /\ ParseF64(T[k].val).ok
         ELSE T[k].typ = "Op"

RECURSIVE RatPow(_, _)
RatPow(b, e) == IF e = 0 THEN Rat(1, 1) ELSE RatMul(b, RatPow(b, e - 1))

\* The arithmetic value of the tokens lo..hi of a well-formed sequence, by
\* splitting at the operator applied last: the rightmost + or -, else the
\* rightmost * or /, else the leftmost ^.  def is FALSE where a division
\* by zero, or a power that is not a whole number of factors, comes up.
RECURSIVE RefValue(_, _, _)
RefValue(T, lo, hi) ==
    IF lo = hi THEN [def |-> TRUE, val |-> ParseF64(T[lo].val).val]
    ELSE LET at(S) == {k \in (lo + 1)..(hi - 1) : T[k].val[1] \in S /\ T[k].typ = "Op"}
             Max(S) == CHOOSE k \in S : \A j \in S : j <= k
             Min(S) == CHOOSE k \in S : \A j \in S : k <= j
             k == IF at({"+", "-"}) # {} THEN Max(at({"+", "-"}))
                  ELSE IF at({"*", "/"}) # {} THEN Max(at({"*", "/"}))
                  ELSE Min(at({"^"}))
             a == RefValue(T, lo, k - 1)
             b == RefValue(T, k + 1, hi)
             op == T[k].val[1]
         IN  IF ~a.def \/ ~b.def THEN [def |-> FALSE, val |-> Zero]
             ELSE IF op = "+" THEN [def |-> TRUE, val |-> RatAdd(a.val, b.val)]
             ELSE IF op = "-" THEN [def |-> TRUE, val |-> RatSub(a.val, b.val)]
             ELSE IF op = "*" THEN [def |-> TRUE, val |-> RatMul(a.val, b.val)]
             ELSE IF op = "/"
             THEN IF b.val = Zero THEN [def |-> FALSE, val |-> Zero]
                  ELSE [def |-> TRUE, val |-> RatDiv(a.val, b.val)]
             ELSE IF b.val.d # 1 \/ b.val.n < 0 THEN [def |-> FALSE, val |-> Zero]
             ELSE [def |-> TRUE, val |-> RatPow(a.val, b.val.n)]

\* C14: for a well-formed sequence of numbers joined by + - * / ^ with no
\* division by zero (the numbers of at most MaxDigits digits, which keeps
\* the powers in range), the first parse call returns the value of the whole
\* expression and leaves no token unread.
C14_WholeGrammar ==
    (/\ parses = 1
     /\ WellFormed(toks)
     /\ \A k \in 1..Len(toks) : Len(toks[k].val) <= MaxDigits
     /\ RefValue(toks, 1, Len(toks)).def)
        => /\ out = [typ |-> "Ok", val |-> RefValue(toks, 1, Len(toks)).val]
           /\ idx = Len(toks)

====
